---- MODULE Spec2Model ----
(***************************************************************************)
(* ezer: a file-backed store of memory entries (notes, puzzles, feedback)  *)
(* and the dependency view over puzzles.                                   *)
(*                                                                         *)
(* The store is the directory .ezer/memory: one file <id>.md per entry,    *)
(* a YAML front matter and a body.  Every command of the CLI is one        *)
(* short-lived process that reads and writes these files.                  *)
(*                                                                         *)
(* Conventions of the model                                                *)
(*   - an optional value (a field that may be absent, undefined, null) is  *)
(*     a sequence of length 0 or 1: <<>> is absent, <<v>> is present;      *)
(*   - identifiers are numbers: 1..MaxIds are the identifiers generateId   *)
(*     returns, in the order it returns them; StrayId is a string that     *)
(*     matches ID_PATTERN and BadId one that does not, and neither is      *)
(*     ever generated.  generateId draws 5 characters at random and does   *)
(*     not look at the directory: the model takes what it returns to be    *)
(*     new, an identifier that no entry has had and no command has named;  *)
(*     the characters of an identifier are the matter of gen and of        *)
(*     SpecId only, a character standing for its class (Chars);            *)
(*   - a text (content, body) is [len, pad]: len bytes once trimmed and    *)
(*     pad bytes of surrounding whitespace;                                *)
(*   - a timestamp is the value of clock when it was taken.                *)
(***************************************************************************)
EXTENDS Integers, Sequences, FiniteSets, TLC

\* ------------------------------------------------------------------ bounds

\* Number of identifiers generateId can hand out (entries ever created).
MaxIds == 4

\* Longest name of a working directory.
MaxName == 3

\* Number of entries the commands of Spec and of SpecNotes create, and of
\* identifiers they name.
MaxEntries == 3

\* Longest blocks list the appends of SpecDiamond build.
MaxBlocks == 2

\* The latest time the clock of SpecTime shows.
MaxClock == 2

\* --------------------------------------------------------------- constants

SOFT_LIMIT == 30000
HARD_LIMIT == 32768

\* ------------------------------------------------------------------- state

VARIABLES
    files,    \* files[id]: <<>> when .ezer/memory/<id>.md is absent, else <<file>>
    nextId,   \* the next identifier generateId returns
    clock,    \* the time, as new Date() reads it
    result,   \* outcome of the last library call: [status, warn, count]; status
              \*   is "ok", or what was thrown: "ENOENT" (no such file), "HardLimit",
              \*   or the end of the Error message ("is not a puzzle", ..); count is
              \*   the number clearFeedback returns
    rn        \* the running (or last ended) replaceNotes: [pc, ids, content, i, before]
              \*   pc: "idle", "delete" (about to unlink ids[i]), "create" (about to
              \*   createNote), "done", "failed"; before: files when it started
VARIABLE
    tree      \* the running (or last ended) renderPuzzleTree: [pc, root, entries,
              \*   current, ancestors, stack, descendants, out]
              \*   pc: "idle", "ancestors" (in the while loop), "descendants" (in
              \*   findDescendants), "done" (returned), "overflow" (RangeError)

VARIABLE
    shown     \* what the last ezer puzzle list printed, when no call has been made
              \*   since: [flag, status, lines]; status: the set of <<id, status>>
              \*   of the puzzles; lines: the puzzles printed, with their status

VARIABLE
    gen       \* generateId, character by character: [dirName, prefix, id]; dirName:
              \*   the name of the working directory; prefix: the prefix held by
              \*   .ezer/config.yaml, <<>> while there is no file; id: the
              \*   identifier last returned, <<>> before the first

VARIABLE
    inv       \* two invocations of ezer that run at the same time, one in
              \*   updatePuzzleStatus and one in updatePuzzleBlocks: for each
              \*   [pc, id, target, entry]; pc: "idle", "read" (the file of id was
              \*   read and decoded to entry), "checked" (the target was read),
              \*   "done", "failed"

vars == <<files, nextId, clock, result, rn, tree, shown, gen, inv>>

Ids == 1..MaxIds
BadId == 0
StrayId == -1

None == <<>>
Some(v) == <<v>>

\* ID_PATTERN.test(id)
ID_PATTERN(id) == id \in Ids \cup {StrayId}

\* The characters of names, one of each class: a lower-case letter, an upper-case
\* letter, a digit, the two separators, and a character that is none of these
Chars == {"a", "A", "7", "-", "_", "."}

\* BASE32_ALPHABET, by the classes of Chars: letters and the digits 2-7
BASE32_ALPHABET == {"a", "7"}

\* [a-z0-9] of ID_PATTERN
LowerAlnum == {"a", "7"}

\* The names process.cwd().split("/").pop() gives: no "/", empty in the root
DirNames == UNION {[1..n -> Chars] : n \in 0..MaxName}

\* /^[a-z0-9]{2,}-[a-z2-7]{5}$/.test(s), s a sequence of characters
PatternTest(s) ==
    /\ Len(s) >= 8
    /\ s[Len(s) - 5] = "-"
    /\ \A i \in 1..(Len(s) - 6) : s[i] \in LowerAlnum
    /\ \A i \in (Len(s) - 4)..Len(s) : s[i] \in BASE32_ALPHABET

\* generateRandomId(length): every string it can draw
generateRandomId(length) == [1..length -> BASE32_ALPHABET]

RECURSIVE Split(_)
\* dirName.split(/[-_]/)
Split(s) ==
    IF \A i \in DOMAIN s : s[i] \notin {"-", "_"} THEN <<s>>
    ELSE LET i == CHOOSE k \in DOMAIN s :
                     /\ s[k] \in {"-", "_"}
                     /\ \A j \in 1..(k - 1) : s[j] \notin {"-", "_"}
         IN <<SubSeq(s, 1, i - 1)>> \o Split(SubSeq(s, i + 1, Len(s)))

RECURSIVE Initials(_)
\* segments.map((s) => s[0] ?? "").join("")
Initials(segments) ==
    IF segments = <<>> THEN <<>>
    ELSE (IF Head(segments) = <<>> THEN <<>> ELSE <<Head(segments)[1]>>)
         \o Initials(Tail(segments))

\* s.toLowerCase()
toLowerCase(s) == [i \in DOMAIN s |-> IF s[i] = "A" THEN "a" ELSE s[i]]

\* derivePrefix(dirName)
derivePrefix(dirName) ==
    LET prefix == Initials(Split(dirName))
    IN toLowerCase(IF Len(prefix) < 2
                   THEN SubSeq(dirName, 1, IF Len(dirName) < 2 THEN Len(dirName) ELSE 2)
                   ELSE prefix)

\* The project of the specifications whose identifiers are numbers: a directory
\* "aa", no config.yaml yet
NoGen == [dirName |-> <<"a", "a">>, prefix |-> None, id |-> None]

NoBlocks == [kind |-> "none", val |-> <<>>]
ListBlocks(s) == [kind |-> "list", val |-> s]

Range(s) == {s[i] : i \in DOMAIN s}

RECURSIVE SelectSeqBy(_, _)
\* s.filter(x => x \in keep), order kept
SelectSeqBy(s, keep) ==
    IF s = <<>> THEN <<>>
    ELSE IF Head(s) \in keep
         THEN <<Head(s)>> \o SelectSeqBy(Tail(s), keep)
         ELSE SelectSeqBy(Tail(s), keep)

\* ------------------------------------------------------------------- codec

\* String.prototype.trim on a text
Trim(t) == [len |-> t.len, pad |-> 0]

\* Buffer.byteLength(text, "utf-8")
getByteSize(t) == t.len + t.pad

\* The values YAML gives for blocks and for the elements of a blocks list.  A
\* string is a number: an identifier, StrayId, BadId, or Padded(s), the string s
\* with whitespace around it.  NotString is a value that is not a string (a
\* number, a boolean, null, a map).  A blocks value is of kind "none" (no
\* blocks key), "string", "list", or "other" (a value that is neither).
NotString == -2
Padded(s) == s + 100
OtherBlocks == [kind |-> "other", val |-> <<>>]
StringBlocks(s) == [kind |-> "string", val |-> <<s>>]

\* typeof v === "string"
IsString(v) == v # NotString

\* String.prototype.trim on a string of a blocks value
StringTrim(s) == IF s > 50 THEN s - 100 ELSE s

\* normalizeBlocks with the bug of taking arrays only
normalizeBlocks_ListOnly(b) ==
    IF b.kind = "list"
    THEN LET strings == SelectSeq(b.val, IsString)
             trimmed == [i \in DOMAIN strings |-> StringTrim(strings[i])]
         IN SelectSeq(trimmed, ID_PATTERN)
    ELSE <<>>

\* normalizeBlocks: the front matter's blocks value to a list of identifiers
\* (<<>> stands for undefined).  Of an array the strings are kept, trimmed, and
\* of these the ones of the format; a string is trimmed and kept if of the format.
normalizeBlocks(b) ==
    IF b.kind = "list"
    THEN LET strings == SelectSeq(b.val, IsString)
             trimmed == [i \in DOMAIN strings |-> StringTrim(strings[i])]
         IN SelectSeq(trimmed, ID_PATTERN)
    ELSE IF b.kind = "string" /\ ID_PATTERN(StringTrim(b.val[1]))
    THEN <<StringTrim(b.val[1])>>
    ELSE <<>>

\* A file whose text does not have the front matter delimiters
Garbage == [raw |-> TRUE]

\* content.match(/^---\n([\s\S]*?)\n---\n([\s\S]*)$/): parseMemoryFile throws
\* when it is null
HasFrontMatter(f) == f # Garbage

\* parseMemoryFile(id, content) of a file that has the front matter delimiters
parseMemoryFile(id, f) ==
    [id |-> id,
     type |-> f.type,
     content |-> Trim(f.body),
     created |-> f.created,
     title |-> f.title,
     status |-> IF f.status \in {Some("open"), Some("closed")} THEN f.status ELSE None,
     closedAt |-> f.closedAt,
     blocks |-> normalizeBlocks(f.blocks)]

getBlocksList(entry) == entry.blocks

\* serializeMemoryEntry with the bug of leaving closedAt out
serializeMemoryEntry_NoClosedAt(entry) ==
    [type |-> entry.type,
     created |-> entry.created,
     title |-> IF entry.title # None /\ entry.title[1] # 0 THEN entry.title ELSE None,
     status |-> entry.status,
     closedAt |-> None,
     blocks |-> IF Len(entry.blocks) > 0 THEN ListBlocks(entry.blocks) ELSE NoBlocks,
     body |-> entry.content]

\* serializeMemoryEntry: falsy title, status, closedAt and an empty blocks are
\* left out of the front matter; the content is written as given.
serializeMemoryEntry(entry) ==
    [type |-> entry.type,
     created |-> entry.created,
     title |-> IF entry.title # None /\ entry.title[1] # 0 THEN entry.title ELSE None,
     status |-> entry.status,
     closedAt |-> entry.closedAt,
     blocks |-> IF Len(entry.blocks) > 0 THEN ListBlocks(entry.blocks) ELSE NoBlocks,
     body |-> entry.content]

\* ------------------------------------------------------------------- store

Exists(id) == id \in Ids /\ files[id] # None

\* readFile + parseMemoryFile of an existing entry file
Read(id) == parseMemoryFile(id, files[id][1])

Res(status, warn) == [status |-> status, warn |-> warn, count |-> 0]

Idle == [pc |-> "idle", ids |-> <<>>, content |-> [len |-> 0, pad |-> 0], i |-> 0,
         before |-> <<>>]

\* No replaceNotes is running: the last one, if any, has ended.
NoRun == rn.pc \in {"idle", "done", "failed"}

\* No renderPuzzleTree has been called
NoWalk == [pc |-> "idle", root |-> 0, entries |-> <<>>, current |-> 0, ancestors |-> <<>>,
           turn |-> 0, stack |-> <<>>, descendants |-> <<>>,
           out |-> [text |-> "", ancestors |-> <<>>, descendants |-> <<>>]]

\* No invocation runs beside the one the model follows
NoInv ==
    LET none == [pc |-> "idle", id |-> 0, target |-> 0, entry |-> <<>>]
    IN [status |-> none, blocks |-> none]

\* No puzzle list has been printed since the last call
NoList == [flag |-> "", status |-> {}, lines |-> <<>>]

Init ==
    /\ files = [i \in Ids |-> None]
    /\ nextId = 1
    /\ clock = 0
    /\ result = Res("none", FALSE)
    /\ rn = Idle
    /\ tree = NoWalk
    /\ shown = NoList
    /\ gen = NoGen
    /\ inv = NoInv

\* createPuzzle(title, description, blocksId); description and blocksId are
\* optional.  generateId returns an identifier no entry has had.
createPuzzle(title, description, blocksId) ==
    /\ NoRun
    /\ nextId <= MaxIds
    /\ LET entry == [id |-> nextId,
                     type |-> "puzzle",
                     title |-> Some(title),
                     content |-> IF description = None THEN [len |-> 0, pad |-> 0]
                                 ELSE description[1],
                     created |-> clock,
                     status |-> Some("open"),
                     closedAt |-> None,
                     blocks |-> blocksId]
       IN files' = [files EXCEPT ![nextId] = Some(serializeMemoryEntry(entry))]
    /\ nextId' = nextId + 1
    /\ result' = Res("ok", FALSE)
    /\ rn' = Idle
    /\ tree' = NoWalk
    /\ shown' = NoList
    /\ gen' = gen
    /\ inv' = inv
    /\ UNCHANGED clock

\* StatusUpdate with the bug of dropping the blocks of the entry
StatusUpdate_DropsBlocks(entry, status, now) ==
    [entry EXCEPT !.status = Some(status),
                  !.blocks = <<>>,
                  !.closedAt = IF status = "closed" THEN Some(now) ELSE None]

\* StatusUpdate with the bug of stamping created as well
StatusUpdate_Restamps(entry, status, now) ==
    [entry EXCEPT !.status = Some(status),
                  !.created = now,
                  !.closedAt = IF status = "closed" THEN Some(now) ELSE None]

\* StatusUpdate with the bug of leaving closedAt in place on "open"
StatusUpdate_KeepsClosedAt(entry, status, now) ==
    [entry EXCEPT !.status = Some(status),
                  !.closedAt = IF status = "closed" THEN Some(now) ELSE entry.closedAt]

\* updatePuzzleStatus, what it assigns: entry.status, and entry.closedAt is
\* stamped on "closed" and deleted otherwise.
StatusUpdate(entry, status, now) ==
    [entry EXCEPT !.status = Some(status),
                  !.closedAt = IF status = "closed" THEN Some(now) ELSE None]

\* updatePuzzleStatus(id, status)
updatePuzzleStatus(id, status) ==
    /\ NoRun
    /\ IF ~Exists(id)
       THEN /\ result' = Res("ENOENT", FALSE)
            /\ UNCHANGED files
       ELSE IF Read(id).type # "puzzle"
       THEN /\ result' = Res("is not a puzzle", FALSE)
            /\ UNCHANGED files
       ELSE LET entry == StatusUpdate(Read(id), status, clock)
            IN /\ files' = [files EXCEPT ![id] = Some(serializeMemoryEntry(entry))]
               /\ result' = Res("ok", FALSE)
    /\ rn' = Idle
    /\ tree' = NoWalk
    /\ shown' = NoList
    /\ gen' = gen
    /\ inv' = inv
    /\ UNCHANGED <<nextId, clock>>

\* new Set(list) then Array.from: the first occurrence of each element, in order
RECURSIVE Dedup(_)
Dedup(s) ==
    IF s = <<>> THEN <<>>
    ELSE <<Head(s)>> \o Dedup(SelectSeqBy(Tail(s), Range(s) \ {Head(s)}))

\* UpdatedBlocks with the bug of appending a target that is already there
UpdatedBlocks_AppendsAgain(currentBlocks, blocksId, action) ==
    IF action = "remove"
    THEN IF blocksId = None THEN <<>>
         ELSE SelectSeqBy(currentBlocks, Range(currentBlocks) \ {blocksId[1]})
    ELSE IF blocksId = None THEN <<>>
    ELSE IF action = "set" THEN <<blocksId[1]>>
    ELSE currentBlocks \o <<blocksId[1]>>

\* UpdatedBlocks with the bug of clearing the list on the removal of one target
UpdatedBlocks_RemoveClears(currentBlocks, blocksId, action) ==
    IF action = "remove" THEN <<>>
    ELSE IF blocksId = None THEN <<>>
    ELSE IF action = "set" THEN <<blocksId[1]>>
    ELSE Dedup(currentBlocks \o <<blocksId[1]>>)

\* UpdatedBlocks with the bug of keeping the list when no target is given
UpdatedBlocks_NullKeeps(currentBlocks, blocksId, action) ==
    IF blocksId = None THEN currentBlocks
    ELSE IF action = "remove"
    THEN SelectSeqBy(currentBlocks, Range(currentBlocks) \ {blocksId[1]})
    ELSE IF action = "set" THEN <<blocksId[1]>>
    ELSE Dedup(currentBlocks \o <<blocksId[1]>>)

\* The blocks list updatePuzzleBlocks writes, from the current list, the target
\* (optional) and the action.
UpdatedBlocks(currentBlocks, blocksId, action) ==
    IF action = "remove"
    THEN IF blocksId = None THEN <<>>
         ELSE SelectSeqBy(currentBlocks, Range(currentBlocks) \ {blocksId[1]})
    ELSE IF blocksId = None THEN <<>>
    ELSE IF action = "set" THEN <<blocksId[1]>>
    ELSE Dedup(currentBlocks \o <<blocksId[1]>>)

\* updatePuzzleBlocks with the bug of not reading the target
updatePuzzleBlocks_NoTargetCheck(id, blocksId, action) ==
    /\ NoRun
    /\ IF ~Exists(id)
       THEN /\ result' = Res("ENOENT", FALSE)
            /\ UNCHANGED files
       ELSE IF Read(id).type # "puzzle"
       THEN /\ result' = Res("is not a puzzle", FALSE)
            /\ UNCHANGED files
       ELSE LET entry == [Read(id) EXCEPT
                            !.blocks = UpdatedBlocks(getBlocksList(Read(id)), blocksId, action)]
            IN /\ files' = [files EXCEPT ![id] = Some(serializeMemoryEntry(entry))]
               /\ result' = Res("ok", FALSE)
    /\ rn' = Idle
    /\ tree' = NoWalk
    /\ shown' = NoList
    /\ gen' = gen
    /\ inv' = inv
    /\ UNCHANGED <<nextId, clock>>

\* updatePuzzleBlocks(id, blocksId, action); blocksId is optional (null).  In the
\* actions set and append a given target is read and must be a puzzle.
updatePuzzleBlocks(id, blocksId, action) ==
    /\ NoRun
    /\ IF ~Exists(id)
       THEN /\ result' = Res("ENOENT", FALSE)
            /\ UNCHANGED files
       ELSE IF Read(id).type # "puzzle"
       THEN /\ result' = Res("is not a puzzle", FALSE)
            /\ UNCHANGED files
       ELSE IF action # "remove" /\ blocksId # None /\ ~Exists(blocksId[1])
       THEN /\ result' = Res("ENOENT", FALSE)
            /\ UNCHANGED files
       ELSE IF action # "remove" /\ blocksId # None /\ Read(blocksId[1]).type # "puzzle"
       THEN /\ result' = Res("is not a puzzle", FALSE)
            /\ UNCHANGED files
       ELSE LET entry == [Read(id) EXCEPT
                            !.blocks = UpdatedBlocks(getBlocksList(Read(id)), blocksId, action)]
            IN /\ files' = [files EXCEPT ![id] = Some(serializeMemoryEntry(entry))]
               /\ result' = Res("ok", FALSE)
    /\ rn' = Idle
    /\ tree' = NoWalk
    /\ shown' = NoList
    /\ gen' = gen
    /\ inv' = inv
    /\ UNCHANGED <<nextId, clock>>

\* Unlinked with the bug of removing nothing
Unlinked_Noop(fs, id) == fs

\* unlink(filePath): the directory without the file of id
Unlinked(fs, id) == [fs EXCEPT ![id] = None]

\* deleteNote with the bug of not looking at the type
deleteNote_AnyType(id) ==
    /\ NoRun
    /\ IF ~Exists(id)
       THEN /\ result' = Res("ENOENT", FALSE)
            /\ UNCHANGED files
       ELSE /\ files' = Unlinked(files, id)
            /\ result' = Res("ok", FALSE)
    /\ rn' = Idle
    /\ tree' = NoWalk
    /\ shown' = NoList
    /\ gen' = gen
    /\ inv' = inv
    /\ UNCHANGED <<nextId, clock>>

\* deleteNote(id): removes the file of a note or a puzzle
deleteNote(id) ==
    /\ NoRun
    /\ IF ~Exists(id)
       THEN /\ result' = Res("ENOENT", FALSE)
            /\ UNCHANGED files
       ELSE IF Read(id).type \notin {"note", "puzzle"}
       THEN /\ result' = Res("is not a note or puzzle", FALSE)
            /\ UNCHANGED files
       ELSE /\ files' = Unlinked(files, id)
            /\ result' = Res("ok", FALSE)
    /\ rn' = Idle
    /\ tree' = NoWalk
    /\ shown' = NoList
    /\ gen' = gen
    /\ inv' = inv
    /\ UNCHANGED <<nextId, clock>>

\* writeFile(filePath, serializeMemoryEntry(entry)): the file of entry.id holds
\* the encoding of entry
writeEntry(entry) ==
    /\ files' = [files EXCEPT ![entry.id] = Some(serializeMemoryEntry(entry))]
    /\ shown' = NoList
    /\ gen' = gen
    /\ inv' = inv
    /\ UNCHANGED <<nextId, clock, result, rn, tree>>

\* writeFile(filePath, text) by hand or by another program: the file of id has
\* the front matter f
writeRaw(id, f) ==
    /\ files' = [files EXCEPT ![id] = Some(f)]
    /\ shown' = NoList
    /\ gen' = gen
    /\ inv' = inv
    /\ UNCHANGED <<nextId, clock, result, rn, tree>>

\* ----------------------------------------------------------------- listing

RECURSIVE Perms(_)
\* All the orders of the elements of a finite set
Perms(S) ==
    IF S = {} THEN {<<>>}
    ELSE UNION {{<<x>> \o p : p \in Perms(S \ {x})} : x \in S}

\* listMemoryEntries(type), type optional: the sequences it can return.  readdir
\* gives the files in an order of its own and the sort by created, newest first,
\* is stable, so entries of one created value come in any order.  The loop is
\* inside one try: when parseMemoryFile throws on a file, the catch returns [].
listMemoryEntries(type) ==
    IF \E id \in Ids : Exists(id) /\ ~HasFrontMatter(files[id][1])
    THEN {<<>>}
    ELSE
    LET match == {id \in Ids : Exists(id) /\ (type = None \/ Read(id).type = type[1])}
    IN {[i \in DOMAIN p |-> Read(p[i])] : p \in
          {q \in Perms(match) :
             \A i, j \in DOMAIN q : i < j => Read(q[i]).created >= Read(q[j]).created}}

\* clearFeedback with the bug of listing the entries of every type
clearFeedback_AnyType ==
    /\ NoRun
    /\ \E entries \in listMemoryEntries(None) :
          /\ files' = [id \in Ids |->
                         IF id \in {entries[i].id : i \in DOMAIN entries}
                         THEN Unlinked(files, id)[id] ELSE files[id]]
          /\ result' = [Res("ok", FALSE) EXCEPT !.count = Len(entries)]
    /\ rn' = Idle
    /\ tree' = NoWalk
    /\ shown' = NoList
    /\ gen' = gen
    /\ inv' = inv
    /\ UNCHANGED <<nextId, clock>>

\* clearFeedback(): every feedback entry of the listing is unlinked, and the
\* length of the listing is returned
clearFeedback ==
    /\ NoRun
    /\ \E entries \in listMemoryEntries(Some("feedback")) :
          /\ files' = [id \in Ids |->
                         IF id \in {entries[i].id : i \in DOMAIN entries}
                         THEN Unlinked(files, id)[id] ELSE files[id]]
          /\ result' = [Res("ok", FALSE) EXCEPT !.count = Len(entries)]
    /\ rn' = Idle
    /\ tree' = NoWalk
    /\ shown' = NoList
    /\ gen' = gen
    /\ inv' = inv
    /\ UNCHANGED <<nextId, clock>>

\* ------------------------------------------------------------------- notes

RECURSIVE SumBytes(_)
\* entries.reduce((sum, entry) => sum + getByteSize(entry.content), 0)
SumBytes(entries) ==
    IF entries = <<>> THEN 0
    ELSE getByteSize(Head(entries).content) + SumBytes(Tail(entries))

\* getTotalNoteSize with the bug of listing the entries of every type
getTotalNoteSize_AnyType == SumBytes(CHOOSE l \in listMemoryEntries(None) : TRUE)

\* getTotalNoteSize()
getTotalNoteSize == SumBytes(CHOOSE l \in listMemoryEntries(Some("note")) : TRUE)

\* WithinHardLimit with the bug of >= for >
WithinHardLimit_Strict(content) == ~(getTotalNoteSize + getByteSize(content) >= HARD_LIMIT)

\* Whether createNote(content) passes the hard limit check
WithinHardLimit(content) == ~(getTotalNoteSize + getByteSize(content) > HARD_LIMIT)

\* OverSoftLimit with the bug of >= for >
OverSoftLimit_AtLimit(content) == getTotalNoteSize + getByteSize(content) >= SOFT_LIMIT

\* Whether createNote(content) warns about the soft limit
OverSoftLimit(content) == getTotalNoteSize + getByteSize(content) > SOFT_LIMIT

\* The body of createNote(content): files, nextId and result after it
CreateNoteBody(content) ==
    IF ~WithinHardLimit(content)
    THEN /\ result' = Res("HardLimit", FALSE)
         /\ UNCHANGED <<files, nextId>>
    ELSE LET entry == [id |-> nextId,
                       type |-> "note",
                       title |-> None,
                       content |-> content,
                       created |-> clock,
                       status |-> None,
                       closedAt |-> None,
                       blocks |-> <<>>]
         IN /\ files' = [files EXCEPT ![nextId] = Some(serializeMemoryEntry(entry))]
            /\ nextId' = nextId + 1
            /\ result' = Res("ok", OverSoftLimit(content))

\* createNote(content)
createNote(content) ==
    /\ NoRun
    /\ nextId <= MaxIds
    /\ CreateNoteBody(content)
    /\ rn' = Idle
    /\ tree' = NoWalk
    /\ shown' = NoList
    /\ gen' = gen
    /\ inv' = inv
    /\ UNCHANGED clock

\* createFeedback(content)
createFeedback(content) ==
    /\ NoRun
    /\ nextId <= MaxIds
    /\ LET entry == [id |-> nextId,
                     type |-> "feedback",
                     title |-> None,
                     content |-> content,
                     created |-> clock,
                     status |-> None,
                     closedAt |-> None,
                     blocks |-> <<>>]
       IN files' = [files EXCEPT ![nextId] = Some(serializeMemoryEntry(entry))]
    /\ nextId' = nextId + 1
    /\ result' = Res("ok", FALSE)
    /\ rn' = Idle
    /\ tree' = NoWalk
    /\ shown' = NoList
    /\ gen' = gen
    /\ inv' = inv
    /\ UNCHANGED clock

\* updateNote with the bug of not looking at the type
updateNote_NoTypeCheck(id, content) ==
    /\ NoRun
    /\ IF ~Exists(id)
       THEN /\ result' = Res("ENOENT", FALSE)
            /\ UNCHANGED files
       ELSE LET entry == [Read(id) EXCEPT !.content = content]
            IN /\ files' = [files EXCEPT ![id] = Some(serializeMemoryEntry(entry))]
               /\ result' = Res("ok", FALSE)
    /\ rn' = Idle
    /\ tree' = NoWalk
    /\ shown' = NoList
    /\ gen' = gen
    /\ inv' = inv
    /\ UNCHANGED <<nextId, clock>>

\* updateNote(id, content)
updateNote(id, content) ==
    /\ NoRun
    /\ IF ~Exists(id)
       THEN /\ result' = Res("ENOENT", FALSE)
            /\ UNCHANGED files
       ELSE IF Read(id).type # "note"
       THEN /\ result' = Res("is not a note", FALSE)
            /\ UNCHANGED files
       ELSE LET entry == [Read(id) EXCEPT !.content = content]
            IN /\ files' = [files EXCEPT ![id] = Some(serializeMemoryEntry(entry))]
               /\ result' = Res("ok", FALSE)
    /\ rn' = Idle
    /\ tree' = NoWalk
    /\ shown' = NoList
    /\ gen' = gen
    /\ inv' = inv
    /\ UNCHANGED <<nextId, clock>>

\* InvalidIds with the bug of checking the first id only
InvalidIds_FirstOnly(ids) ==
    {i \in {1} : ~Exists(ids[i]) \/ Read(ids[i]).type # "note"}

\* replaceNotes, its first loop: the positions of ids at which it throws, the
\* file missing or the entry not a note
InvalidIds(ids) == {i \in DOMAIN ids : ~Exists(ids[i]) \/ Read(ids[i]).type # "note"}

\* replaceNotes(ids, content), its first loop: every id is read and must be a
\* note.  The loop only reads; it ends the call or leaves it at the first unlink.
replaceNotesValidate(ids, content) ==
    /\ NoRun
    /\ nextId <= MaxIds
    /\ LET run == [pc |-> "delete", ids |-> ids, content |-> content, i |-> 1,
                   before |-> files]
           bad == InvalidIds(ids)
           first == CHOOSE i \in bad : \A j \in bad : i <= j
       IN IF bad = {}
          THEN /\ rn' = run
               /\ UNCHANGED result
          ELSE /\ rn' = [run EXCEPT !.pc = "failed", !.i = 0]
               /\ result' = Res(IF Exists(ids[first]) THEN "is not a note" ELSE "ENOENT", FALSE)
    /\ shown' = NoList
    /\ gen' = gen
    /\ inv' = inv
    /\ UNCHANGED <<files, nextId, clock, tree>>

\* replaceNotes, one turn of its second loop: unlink(ids[i]); unlink of a file
\* that is not there ends the call.
replaceNotesUnlink ==
    /\ rn.pc = "delete"
    /\ IF ~Exists(rn.ids[rn.i])
       THEN /\ rn' = [rn EXCEPT !.pc = "failed"]
            /\ result' = Res("ENOENT", FALSE)
            /\ UNCHANGED files
       ELSE /\ files' = Unlinked(files, rn.ids[rn.i])
            /\ rn' = IF rn.i = Len(rn.ids) THEN [rn EXCEPT !.pc = "create"]
                     ELSE [rn EXCEPT !.i = rn.i + 1]
            /\ UNCHANGED result
    /\ shown' = NoList
    /\ gen' = gen
    /\ inv' = inv
    /\ UNCHANGED <<nextId, clock, tree>>

\* replaceNotes, its end: return createNote(content)
replaceNotesCreate ==
    /\ rn.pc = "create"
    /\ CreateNoteBody(rn.content)
    /\ rn' = [rn EXCEPT !.pc = IF WithinHardLimit(rn.content) THEN "done" ELSE "failed"]
    /\ shown' = NoList
    /\ gen' = gen
    /\ inv' = inv
    /\ UNCHANGED <<clock, tree>>

\* ------------------------------------------------- puzzle list (src/cli.ts)

\* A key of the blockers Map.  Map compares keys by SameValueZero: a string equals
\* a string of the same characters, an object (an array) equals only itself.  The
\* blocks array of a parsed entry is an object of that entry's own.
StringKey(s) == [kind |-> "string", str |-> s, ref |-> 0]
ArrayKey(owner) == [kind |-> "object", str |-> 0, ref |-> owner]

\* openPuzzles with the bug of asking for the status open
openPuzzles_StatusOpen(entries) == SelectSeq(entries, LAMBDA e : e.status = Some("open"))

\* entries.filter(e => e.status !== "closed")
openPuzzles(entries) == SelectSeq(entries, LAMBDA e : e.status # Some("closed"))

\* entries.filter(e => e.status === "closed")
closedPuzzles(entries) == SelectSeq(entries, LAMBDA e : e.status = Some("closed"))

\* BlockersKey with the key being the first id of puzzle.blocks
BlockersKey_FirstId(puzzle) ==
    IF puzzle.blocks = <<>> THEN ArrayKey(puzzle.id) ELSE StringKey(puzzle.blocks[1])

\* The key under which the blockers loop files an open puzzle: puzzle.blocks
BlockersKey(puzzle) == ArrayKey(puzzle.id)

\* blockers.get(key) ?? []: the open puzzles filed under key, in listing order
blockersGet(entries, key) ==
    SelectSeq(openPuzzles(entries),
              LAMBDA p : p.blocks # <<>> /\ BlockersKey(p) = key)

\* getBlockingPuzzles(puzzleId)
getBlockingPuzzles(entries, puzzleId) == blockersGet(entries, StringKey(puzzleId))

\* getStatus(puzzle)
getStatus(entries, puzzle) ==
    IF puzzle.status = Some("closed") THEN "closed"
    ELSE IF Len(getBlockingPuzzles(entries, puzzle.id)) > 0 THEN "blocked"
    ELSE "ready"

readyPuzzles(entries) ==
    SelectSeq(openPuzzles(entries), LAMBDA p : getStatus(entries, p) = "ready")

blockedPuzzles(entries) ==
    SelectSeq(openPuzzles(entries), LAMBDA p : getStatus(entries, p) = "blocked")

\* closedPuzzles.map(puzzle => ({...puzzle, closedAt: puzzle.closedAt ?? puzzle.created}))
closedWithTimestamp(entries) ==
    LET closed == closedPuzzles(entries)
    IN [i \in DOMAIN closed |->
          [closed[i] EXCEPT !.closedAt = IF closed[i].closedAt # None
                                         THEN closed[i].closedAt
                                         ELSE Some(closed[i].created)]]

RECURSIVE SortByClosedAt(_)
\* [...list].sort((a, b) => time of b.closedAt - time of a.closedAt): the latest
\* first; the sort is stable, so of equal times the first of the list comes first
SortByClosedAt(list) ==
    IF list = <<>> THEN <<>>
    ELSE LET latest == CHOOSE i \in DOMAIN list :
                          /\ \A j \in DOMAIN list : list[i].closedAt[1] >= list[j].closedAt[1]
                          /\ \A j \in 1..(i - 1) : list[j].closedAt[1] # list[i].closedAt[1]
             rest == [j \in 1..(Len(list) - 1) |-> IF j < latest THEN list[j] ELSE list[j + 1]]
         IN <<list[latest]>> \o SortByClosedAt(rest)

\* The flags of ezer puzzle list; "none" is the command without a flag
ListFlags == {"none", "ready", "blocked", "closed"}

\* toShow, by the flag given
toShow(entries, flag) ==
    IF flag = "closed" THEN SortByClosedAt(closedWithTimestamp(entries))
    ELSE IF flag = "blocked" THEN blockedPuzzles(entries)
    ELSE readyPuzzles(entries)

\* The lines printed for toShow: id, status, and the blockers of a blocked puzzle
ListLines(entries, list) ==
    [i \in DOMAIN list |->
        [id |-> list[i].id,
         status |-> getStatus(entries, list[i]),
         blockedBy |-> LET by == getBlockingPuzzles(entries, list[i].id)
                       IN [k \in DOMAIN by |-> by[k].id]]]

\* What puzzle list prints of a listing, and the status it gives every puzzle
Listed(entries, flag) ==
    [flag |-> flag,
     status |-> {<<entries[i].id, getStatus(entries, entries[i])>> : i \in DOMAIN entries},
     lines |-> ListLines(entries, toShow(entries, flag))]

\* puzzleList with the bug of writing the status it derives to the files
puzzleList_Persists(flag) ==
    /\ NoRun
    /\ \E entries \in listMemoryEntries(Some("puzzle")) :
          /\ shown' = Listed(entries, flag)
          /\ files' = [id \in Ids |->
                         IF id \in {entries[i].id : i \in DOMAIN entries}
                         THEN Some([files[id][1] EXCEPT
                                      !.status = Some(getStatus(entries, Read(id)))])
                         ELSE files[id]]
    /\ UNCHANGED <<nextId, clock, result, rn, tree, gen, inv>>

\* ezer puzzle list [--ready | --blocked | --closed]: the run of the command
puzzleList(flag) ==
    /\ NoRun
    /\ \E entries \in listMemoryEntries(Some("puzzle")) :
          shown' = Listed(entries, flag)
    /\ UNCHANGED <<files, nextId, clock, result, rn, tree, gen, inv>>

\* ------------------------------------------- puzzle tree (renderPuzzleTree)

\* The ancestors list as the model keeps it: its first MaxWalk elements.  A walk
\* that ends adds one element for a puzzle at most once, so it never has more.
\* tree.turn is the parity of ancestors.length, which goes on growing in the
\* code when the list of the model is full.
MaxWalk == MaxEntries + 1

\* The number of nested calls of findDescendants at which the engine throws
\* RangeError (Maximum call stack size exceeded).  The engine's limit is in the
\* thousands; over a relation without a cycle the calls nest no deeper than
\* there are puzzles.
MaxDepth == MaxEntries + 1

Keep(s, n) == IF Len(s) > n THEN SubSeq(s, 1, n) ELSE s

\* idMap.get(id): optional
idMapGet(entries, id) ==
    LET hit == SelectSeq(entries, LAMBDA e : e.id = id)
    IN IF hit = <<>> THEN None ELSE Some(hit[1])

\* A call of findDescendants(puzzleId, depth) whose for loop over idMap is at
\* the entry of position pos
Frame(puzzleId, depth, pos) == [id |-> puzzleId, depth |-> depth, pos |-> pos]

\* The next entry of idMap, from position from on, whose blocks includes
\* puzzleId; 0 when there is none
NextMatch(entries, puzzleId, from) ==
    LET hits == {p \in DOMAIN entries :
                   p >= from /\ puzzleId \in Range(getBlocksList(entries[p]))}
    IN IF hits = {} THEN 0 ELSE CHOOSE p \in hits : \A q \in hits : p <= q

\* renderPuzzleTree(rootId), up to its while loop: the puzzles are listed and
\* put in idMap in the order of the listing
renderPuzzleTree(rootId) ==
    /\ NoRun
    /\ tree.pc \in {"idle", "done", "overflow"}
    /\ \E entries \in listMemoryEntries(Some("puzzle")) :
          tree' = [NoWalk EXCEPT !.pc = "ancestors", !.root = rootId,
                                 !.entries = entries, !.current = rootId]
    /\ UNCHANGED <<files, nextId, clock, result, rn, shown, gen, inv>>

\* AncestorStep with the bug of following the last blocks entry, not the first
AncestorStep_LastBlock ==
    /\ tree.pc = "ancestors"
    /\ LET puzzle == idMapGet(tree.entries, tree.current)
           toDescendants == <<Frame(tree.root, 1, 1)>>
       IN IF puzzle = None \/ puzzle[1].type # "puzzle"
          THEN tree' = [tree EXCEPT !.pc = "descendants", !.stack = toDescendants]
          ELSE LET ancestors == Keep(<<tree.current>> \o tree.ancestors, MaxWalk)
                   blocks == getBlocksList(puzzle[1])
               IN IF blocks # <<>>
                  THEN tree' = [tree EXCEPT !.ancestors = ancestors,
                                            !.turn = 1 - tree.turn,
                                            !.current = blocks[Len(blocks)]]
                  ELSE tree' = [tree EXCEPT !.ancestors = ancestors,
                                            !.turn = 1 - tree.turn,
                                            !.pc = "descendants",
                                            !.stack = toDescendants]
    /\ UNCHANGED <<files, nextId, clock, result, rn, shown, gen, inv>>

\* renderPuzzleTree, one turn of the while loop: current is looked up, put at
\* the head of ancestors, and its first blocks entry is the next current
AncestorStep ==
    /\ tree.pc = "ancestors"
    /\ LET puzzle == idMapGet(tree.entries, tree.current)
           toDescendants == <<Frame(tree.root, 1, 1)>>
       IN IF puzzle = None \/ puzzle[1].type # "puzzle"
          THEN tree' = [tree EXCEPT !.pc = "descendants", !.stack = toDescendants]
          ELSE LET ancestors == Keep(<<tree.current>> \o tree.ancestors, MaxWalk)
                   blocks == getBlocksList(puzzle[1])
               IN IF blocks # <<>>
                  THEN tree' = [tree EXCEPT !.ancestors = ancestors,
                                            !.turn = 1 - tree.turn,
                                            !.current = blocks[1]]
                  ELSE tree' = [tree EXCEPT !.ancestors = ancestors,
                                            !.turn = 1 - tree.turn,
                                            !.pc = "descendants",
                                            !.stack = toDescendants]
    /\ UNCHANGED <<files, nextId, clock, result, rn, shown, gen, inv>>

\* renderPuzzleTree, from the return of findDescendants(rootId, 1) to its own:
\* the text it returns, as what it says and the ancestors and descendants lines
Rendered(t) ==
    IF idMapGet(t.entries, t.root) = None
    THEN [text |-> "not found", ancestors |-> <<>>, descendants |-> <<>>]
    ELSE [text |-> "tree",
          ancestors |-> SelectSeq(t.ancestors, LAMBDA id : id # t.root),
          descendants |-> t.descendants]

\* findDescendants, the innermost call up to its next recursive call or its
\* return: the for loop goes on to the next puzzle whose blocks includes
\* puzzleId, records it and calls itself on it
DescendantStep ==
    /\ tree.pc = "descendants"
    /\ LET n == Len(tree.stack)
           top == tree.stack[n]
           p == NextMatch(tree.entries, top.id, top.pos)
       IN IF p = 0
          THEN IF n = 1
               THEN tree' = [tree EXCEPT !.pc = "done", !.stack = <<>>,
                                         !.out = Rendered(tree)]
               ELSE tree' = [tree EXCEPT !.stack = SubSeq(tree.stack, 1, n - 1)]
          ELSE IF n = MaxDepth
          THEN tree' = [tree EXCEPT !.pc = "overflow", !.stack = <<>>]
          ELSE LET child == tree.entries[p]
                   found == [id |-> child.id, depth |-> top.depth]
               IN tree' = [tree EXCEPT
                             !.descendants = Append(tree.descendants, found),
                             !.stack = Append([tree.stack EXCEPT ![n].pos = p + 1],
                                              Frame(child.id, top.depth + 1, 1))]
    /\ UNCHANGED <<files, nextId, clock, result, rn, shown, gen, inv>>

\* The exit code of ezer puzzle tree: 1 when renderPuzzleTree throws
TreeExitCode == IF tree.pc = "overflow" THEN 1 ELSE 0

\* --------------------------------------------------- commands (src/cli.ts)

\* The titles and descriptions the commands are given.
Titles == {1}
Descriptions == {None}

\* What --id names: an identifier that was generated, or one of the format that
\* never is (any other string has no file either).  What --blocks names: the
\* same, or a string that is not of the format.
CmdIds == {id \in Ids : id < nextId} \cup {StrayId}
IdArgs == CmdIds \cup {BadId}

\* ezer puzzle create --title .. [--description ..] [--blocks ..]
PuzzleCreate ==
    /\ nextId <= MaxEntries
    /\ \E t \in Titles, d \in Descriptions, b \in {None} \cup {Some(x) : x \in IdArgs} :
          createPuzzle(t, d, b)

\* ezer puzzle close --id ..
PuzzleClose == \E id \in CmdIds : updatePuzzleStatus(id, "closed")

\* ezer puzzle reopen --id ..
PuzzleReopen == \E id \in CmdIds : updatePuzzleStatus(id, "open")

\* ezer puzzle delete --id ..
PuzzleDelete == \E id \in CmdIds : deleteNote(id)

\* ezer puzzle link --id .. --blocks ..: the action defaults to "set"
PuzzleLink == \E id \in CmdIds, b \in IdArgs : updatePuzzleBlocks(id, Some(b), "set")

\* ezer puzzle unlink --id ..
PuzzleUnlink == \E id \in CmdIds : updatePuzzleBlocks(id, None, "set")

Next ==
    \/ PuzzleCreate
    \/ PuzzleClose
    \/ PuzzleReopen
    \/ PuzzleDelete
    \/ PuzzleLink
    \/ PuzzleUnlink

Spec == Init /\ [][Next]_vars

\* The contents the note and feedback commands are given.
NoteContents ==
    {[len |-> 1, pad |-> 0], [len |-> 2767, pad |-> 1], [len |-> 30000, pad |-> 0]}

\* The --ids lists of note replace: one or two names
IdLists == {<<a>> : a \in CmdIds} \cup {<<a, b>> : a \in CmdIds, b \in CmdIds}

\* ezer note create --content ..
NoteCreate == nextId <= MaxEntries /\ \E c \in NoteContents : createNote(c)

\* ezer note update --id .. --content ..
NoteUpdate == \E id \in CmdIds, c \in NoteContents : updateNote(id, c)

\* ezer note delete --id ..
NoteDelete == \E id \in CmdIds : deleteNote(id)

\* ezer note replace --ids .. --content ..
NoteReplace ==
    /\ nextId <= MaxEntries
    /\ \E ids \in IdLists, c \in NoteContents : replaceNotesValidate(ids, c)

\* ezer feedback create --content ..
FeedbackCreate ==
    /\ nextId <= MaxEntries
    /\ \E c \in {[len |-> 1, pad |-> 0]} : createFeedback(c)

NextNotes ==
    \/ NoteCreate
    \/ NoteUpdate
    \/ NoteDelete
    \/ NoteReplace
    \/ replaceNotesUnlink
    \/ replaceNotesCreate
    \/ FeedbackCreate

SpecNotes == Init /\ [][NextNotes]_vars

\* Something other than ezer (an editor, a merge) leaves the file of an entry
\* without its front matter.
Corrupt ==
    /\ NoRun
    /\ \E id \in Ids :
          /\ Exists(id)
          /\ HasFrontMatter(files[id][1])
          /\ files' = [files EXCEPT ![id] = Some(Garbage)]
    /\ rn' = Idle
    /\ tree' = NoWalk
    /\ shown' = NoList
    /\ gen' = gen
    /\ inv' = inv
    /\ UNCHANGED <<nextId, clock, result>>

\* The commands that create entries, and the edits that damage their files
NextListing ==
    \/ PuzzleCreate
    \/ NoteCreate
    \/ FeedbackCreate
    \/ Corrupt

SpecListing == Init /\ [][NextListing]_vars

\* ezer puzzle tree --id ..
PuzzleTree == \E id \in CmdIds : renderPuzzleTree(id)

\* The calls that build a blocks relation, made while no tree is being rendered
TreeCreate ==
    /\ tree.pc \in {"idle", "done", "overflow"}
    /\ nextId <= MaxEntries
    /\ \E t \in Titles : createPuzzle(t, None, None)

TreeLink ==
    /\ tree.pc \in {"idle", "done", "overflow"}
    /\ \E id \in Ids, b \in Ids :
          /\ Exists(id) /\ Exists(b)
          /\ updatePuzzleBlocks(id, Some(b), "set")

TreeAppend ==
    /\ tree.pc \in {"idle", "done", "overflow"}
    /\ \E id \in Ids, b \in Ids :
          /\ Exists(id) /\ Exists(b)
          /\ Len(Read(id).blocks) < MaxBlocks
          /\ updatePuzzleBlocks(id, Some(b), "append")

NextTree ==
    \/ TreeCreate
    \/ TreeLink
    \/ TreeAppend
    \/ PuzzleTree
    \/ AncestorStep
    \/ DescendantStep

SpecTree == Init /\ [][NextTree]_vars

\* The process that renders a tree keeps running until renderPuzzleTree returns
\* or throws.
SpecTreeFair == SpecTree /\ WF_vars(AncestorStep) /\ WF_vars(DescendantStep)

\* The entries the codec is given: every type, with and without a title (0 is
\* the empty title), a status, closedAt and blocks, the content bare and padded.
ValidEntries ==
    LET blockIds == {1, StrayId}
        lists == UNION {[1..n -> blockIds] : n \in 0..MaxBlocks}
    IN [id : {1},
        type : {"note", "puzzle", "feedback"},
        content : {[len |-> 1, pad |-> 0], [len |-> 1, pad |-> 1]},
        created : {0},
        title : {None, Some(0), Some(1)},
        status : {None, Some("open"), Some("closed")},
        closedAt : {None, Some(0)},
        blocks : lists]

NextCodec == \E e \in ValidEntries : writeEntry(e)

SpecCodec == Init /\ [][NextCodec]_vars

\* The values a front matter can have under blocks: none, a value that is
\* neither a string nor a list, a string, a list of up to MaxBlocks values
RawItems == {1, StrayId, BadId, Padded(1), Padded(BadId), NotString}

RawBlocks ==
    {NoBlocks, OtherBlocks}
    \cup {StringBlocks(s) : s \in RawItems \ {NotString}}
    \cup {ListBlocks(l) : l \in UNION {[1..n -> RawItems] : n \in 0..MaxBlocks}}

\* The front matters whose blocks value is any of these
RawFiles ==
    [type : {"note", "puzzle", "feedback"},
     created : {0},
     title : {Some(1)},
     status : {None, Some("open")},
     closedAt : {None},
     blocks : RawBlocks,
     body : {[len |-> 1, pad |-> 1]}]

NextDecode == \E f \in RawFiles : writeRaw(1, f)

SpecDecode == Init /\ [][NextDecode]_vars

\* The commands and calls over a store of notes, puzzles and feedback
StoreCreate ==
    /\ nextId < MaxEntries
    /\ \/ \E t \in Titles : createPuzzle(t, None, None)
       \/ createNote([len |-> 1, pad |-> 0])
       \/ createFeedback([len |-> 1, pad |-> 0])

StoreBlocks ==
    \E id \in CmdIds, b \in CmdIds, action \in {"set", "append"} :
        updatePuzzleBlocks(id, Some(b), action)

StoreUpdateNote == \E id \in CmdIds : updateNote(id, [len |-> 2, pad |-> 0])

StoreDelete == \E id \in CmdIds : deleteNote(id)

NextStore ==
    \/ StoreCreate
    \/ StoreBlocks
    \/ StoreUpdateNote
    \/ StoreDelete
    \/ clearFeedback

SpecStore == Init /\ [][NextStore]_vars

\* ezer feedback create and ezer puzzle create --description, with contents as
\* large as those of the notes
BudgetFeedback == nextId <= MaxEntries /\ \E c \in NoteContents : createFeedback(c)

BudgetPuzzle ==
    /\ nextId <= MaxEntries
    /\ \E t \in Titles, c \in NoteContents : createPuzzle(t, Some(c), None)

\* The commands that create entries with a content
NextBudget ==
    \/ NoteCreate
    \/ BudgetFeedback
    \/ BudgetPuzzle

SpecBudget == Init /\ [][NextBudget]_vars

\* ezer puzzle create --title .. [--blocks <a puzzle>]
ListCreate ==
    /\ nextId <= MaxEntries
    /\ \E t \in Titles, b \in {None} \cup {Some(x) : x \in Ids \cap CmdIds} :
          createPuzzle(t, None, b)

\* ezer puzzle list, with each flag
PuzzleList == \E flag \in ListFlags : puzzleList(flag)

\* Puzzles are created and closed, and listed in between
NextList ==
    \/ ListCreate
    \/ PuzzleClose
    \/ PuzzleList

SpecList == Init /\ [][NextList]_vars

\* The file of a puzzle is left without its status field (written by hand, or
\* by another program)
StripStatus ==
    \E id \in Ids :
        /\ Exists(id)
        /\ files[id][1].status # None
        /\ writeRaw(id, [files[id][1] EXCEPT !.status = None])

\* Puzzles are created and closed, and some lose their status field
NextKinds ==
    \/ ListCreate
    \/ PuzzleClose
    \/ StripStatus

SpecKinds == Init /\ [][NextKinds]_vars

\* createPuzzle, link, close, reopen and delete, given the puzzles of the store
CycleCreate ==
    /\ nextId <= MaxEntries
    /\ \E t \in Titles : createPuzzle(t, None, None)

CycleLink ==
    \E id \in Ids, b \in Ids :
        Exists(id) /\ Exists(b) /\ updatePuzzleBlocks(id, Some(b), "set")

CycleStatus ==
    \E id \in Ids, status \in {"closed", "open"} :
        Exists(id) /\ updatePuzzleStatus(id, status)

CycleDelete == \E id \in Ids : Exists(id) /\ deleteNote(id)

\* The calls that build and take down a blocks relation, cycles included
NextCycle ==
    \/ CycleCreate
    \/ CycleLink
    \/ CycleStatus
    \/ CycleDelete

SpecCycle == Init /\ [][NextCycle]_vars

\* updatePuzzleStatus(id, "closed") in one invocation, up to the return of
\* readFile: the file is read and decoded
StatusRead(id) ==
    /\ inv.status.pc = "idle"
    /\ inv' = [inv EXCEPT !.status =
                 IF ~Exists(id) \/ Read(id).type # "puzzle"
                 THEN [NoInv.status EXCEPT !.pc = "failed", !.id = id]
                 ELSE [pc |-> "read", id |-> id, target |-> 0, entry |-> Some(Read(id))]]
    /\ UNCHANGED <<files, nextId, clock, result, rn, tree, shown, gen>>

\* StatusWrite with the bug of writing an entry without blocks
StatusWrite_DropsBlocks ==
    /\ inv.status.pc = "read"
    /\ LET entry == [StatusUpdate(inv.status.entry[1], "closed", clock) EXCEPT !.blocks = <<>>]
       IN files' = [files EXCEPT ![inv.status.id] = Some(serializeMemoryEntry(entry))]
    /\ inv' = [inv EXCEPT !.status.pc = "done"]
    /\ UNCHANGED <<nextId, clock, result, rn, tree, shown, gen>>

\* updatePuzzleStatus, from the return of readFile to that of writeFile: status
\* and closedAt are assigned to the entry that was read, and it is written
StatusWrite ==
    /\ inv.status.pc = "read"
    /\ LET entry == StatusUpdate(inv.status.entry[1], "closed", clock)
       IN files' = [files EXCEPT ![inv.status.id] = Some(serializeMemoryEntry(entry))]
    /\ inv' = [inv EXCEPT !.status.pc = "done"]
    /\ UNCHANGED <<nextId, clock, result, rn, tree, shown, gen>>

\* updatePuzzleBlocks(id, target, "append") in the other invocation, up to the
\* return of the first readFile
BlocksRead(id, target) ==
    /\ inv.blocks.pc = "idle"
    /\ inv' = [inv EXCEPT !.blocks =
                 IF ~Exists(id) \/ Read(id).type # "puzzle"
                 THEN [NoInv.blocks EXCEPT !.pc = "failed", !.id = id, !.target = target]
                 ELSE [pc |-> "read", id |-> id, target |-> target,
                       entry |-> Some(Read(id))]]
    /\ UNCHANGED <<files, nextId, clock, result, rn, tree, shown, gen>>

\* updatePuzzleBlocks, the readFile of the target, which must be a puzzle
BlocksTarget ==
    /\ inv.blocks.pc = "read"
    /\ inv' = [inv EXCEPT !.blocks.pc =
                 IF Exists(inv.blocks.target) /\ Read(inv.blocks.target).type = "puzzle"
                 THEN "checked" ELSE "failed"]
    /\ UNCHANGED <<files, nextId, clock, result, rn, tree, shown, gen>>

\* updatePuzzleBlocks, from the return of the second readFile to that of
\* writeFile: blocks is assigned to the entry that was read, and it is written
BlocksWrite ==
    /\ inv.blocks.pc = "checked"
    /\ LET read == inv.blocks.entry[1]
           entry == [read EXCEPT !.blocks = UpdatedBlocks(getBlocksList(read),
                                                          Some(inv.blocks.target), "append")]
       IN files' = [files EXCEPT ![inv.blocks.id] = Some(serializeMemoryEntry(entry))]
    /\ inv' = [inv EXCEPT !.blocks.pc = "done"]
    /\ UNCHANGED <<nextId, clock, result, rn, tree, shown, gen>>

\* The puzzles the two invocations find: created open, with or without a seed
RaceCreate ==
    /\ inv = NoInv
    /\ nextId <= MaxEntries
    /\ \E t \in Titles, b \in {None, Some(StrayId)} : createPuzzle(t, None, b)

\* One invocation closes a puzzle while another appends to the blocks of a
\* puzzle; the steps of the two follow each other in any order
NextRace ==
    \/ RaceCreate
    \/ \E id \in CmdIds : StatusRead(id)
    \/ StatusWrite
    \/ \E id \in CmdIds, target \in CmdIds : BlocksRead(id, target)
    \/ BlocksTarget
    \/ BlocksWrite

SpecRace == Init /\ [][NextRace]_vars

\* generateId(): getOrCreatePrefix returns the prefix of config.yaml when it holds
\* a non-empty one, otherwise derives it from the directory and saves it; the
\* identifier is the prefix, "-", and 5 characters drawn at random
generateId ==
    /\ \E random \in generateRandomId(5) :
          LET prefix == IF gen.prefix # None /\ gen.prefix[1] # <<>>
                        THEN gen.prefix[1]
                        ELSE derivePrefix(gen.dirName)
          IN gen' = [gen EXCEPT !.prefix = Some(prefix),
                                !.id = Some(prefix \o <<"-">> \o random)]
    /\ UNCHANGED <<files, nextId, clock, result, rn, tree, shown, inv>>

\* An empty project in a working directory of any name
InitId ==
    /\ files = [i \in Ids |-> None]
    /\ nextId = 1
    /\ clock = 0
    /\ result = Res("none", FALSE)
    /\ rn = Idle
    /\ tree = NoWalk
    /\ shown = NoList
    /\ gen \in [dirName : DirNames, prefix : {None}, id : {None}]
    /\ inv = NoInv

NextId == generateId

SpecId == InitId /\ [][NextId]_vars

\* Time passes between two calls: new Date() reads a later time
Tick ==
    /\ NoRun
    /\ clock < MaxClock
    /\ clock' = clock + 1
    /\ UNCHANGED <<files, nextId, result, rn, tree, shown, gen, inv>>

\* ezer puzzle create --title .. [--blocks <a puzzle, or an id with no file>],
\* at a time at which no entry was created: the listing has one order
ForestCreate ==
    /\ tree.pc \in {"idle", "done", "overflow"}
    /\ nextId <= MaxEntries
    /\ \A id \in Ids : Exists(id) => Read(id).created # clock
    /\ \E t \in Titles, b \in {None} \cup {Some(x) : x \in CmdIds} :
          createPuzzle(t, None, b)

\* updatePuzzleBlocks(id, <the first puzzle>, "append") on a later puzzle
ForestAppend ==
    /\ tree.pc \in {"idle", "done", "overflow"}
    /\ \E id \in Ids :
          /\ id > 1 /\ Exists(id) /\ Exists(1)
          /\ Len(Read(id).blocks) < MaxBlocks
          /\ updatePuzzleBlocks(id, Some(1), "append")

\* Trees are rendered of a blocks relation without a cycle: a puzzle blocks
\* puzzles created before it, or names an id that has no file
NextForest ==
    \/ Tick
    \/ ForestCreate
    \/ ForestAppend
    \/ PuzzleTree
    \/ AncestorStep
    \/ DescendantStep

SpecForest == Init /\ [][NextForest]_vars

\* The puzzles whose blocks the calls of SpecBlocks change: the first; the
\* others are its targets and stand by
Subjects == {1}

\* createPuzzle with a padded description, with and without a blocks seed that
\* names no entry
BlocksCreate ==
    /\ nextId <= MaxEntries
    /\ \E t \in Titles, b \in {None, Some(StrayId)} :
          createPuzzle(t, Some([len |-> 1, pad |-> 1]), b)

BlocksAppend ==
    \E id \in Subjects, b \in CmdIds :
        /\ Exists(id)
        /\ Len(Read(id).blocks) < MaxBlocks
        /\ updatePuzzleBlocks(id, Some(b), "append")

BlocksSet ==
    \E id \in Subjects, b \in {None} \cup {Some(x) : x \in CmdIds} :
        Exists(id) /\ updatePuzzleBlocks(id, b, "set")

BlocksRemove ==
    \E id \in Subjects, b \in {None} \cup {Some(x) : x \in IdArgs} :
        Exists(id) /\ updatePuzzleBlocks(id, b, "remove")

\* updatePuzzleBlocks in its three actions, with and without a target
NextBlocks ==
    \/ BlocksCreate
    \/ BlocksAppend
    \/ BlocksSet
    \/ BlocksRemove

SpecBlocks == Init /\ [][NextBlocks]_vars

\* updatePuzzleStatus(id, "closed" | "open") on the puzzles of Subjects
FrameStatus ==
    \E id \in Subjects, status \in {"closed", "open"} :
        Exists(id) /\ updatePuzzleStatus(id, status)

\* The two updates of a puzzle, in a store with puzzles they are not given
NextFrame ==
    \/ BlocksCreate
    \/ BlocksAppend
    \/ BlocksSet
    \/ BlocksRemove
    \/ FrameStatus

SpecFrame == Init /\ [][NextFrame]_vars

\* The calls that create the entries that can be updated, notes and puzzles
TimeCreate ==
    /\ nextId < MaxEntries
    /\ \/ \E t \in Titles : createPuzzle(t, None, None)
       \/ createNote([len |-> 1, pad |-> 0])

\* The calls that update the entries of the store
TimeStatus ==
    \E id \in Ids, status \in {"closed", "open"} :
        Exists(id) /\ updatePuzzleStatus(id, status)

\* ezer puzzle link --id .. --blocks <the first entry>
TimeBlocks ==
    \E id \in Ids :
        Exists(id) /\ Exists(1) /\ updatePuzzleBlocks(id, Some(1), "set")

TimeUpdateNote == \E id \in Ids : Exists(id) /\ updateNote(id, [len |-> 2, pad |-> 0])

\* The calls that create and update entries, at different times
NextTime ==
    \/ Tick
    \/ TimeCreate
    \/ TimeStatus
    \/ TimeBlocks
    \/ TimeUpdateNote

SpecTime == Init /\ [][NextTime]_vars

\* The store after ezer puzzle create --title .. (main, 1), ezer puzzle create
\* --title .. (blocker, 2) and ezer puzzle link --id 2 --blocks 1
InitLinked ==
    LET puzzle(id, blocks) == [id |-> id, type |-> "puzzle", title |-> Some(1),
                               content |-> [len |-> 0, pad |-> 0], created |-> 0,
                               status |-> Some("open"), closedAt |-> None,
                               blocks |-> blocks]
    IN /\ files = [i \in Ids |->
                     IF i = 1 THEN Some(serializeMemoryEntry(puzzle(1, <<>>)))
                     ELSE IF i = 2 THEN Some(serializeMemoryEntry(puzzle(2, <<1>>)))
                     ELSE None]
       /\ nextId = 3
       /\ clock = 0
       /\ result = Res("ok", FALSE)
       /\ rn = Idle
       /\ tree = NoWalk
       /\ shown = NoList
       /\ gen = NoGen
       /\ inv = NoInv

\* The puzzle commands given to the linked store, and one more puzzle
NextLink ==
    \/ TreeCreate
    \/ PuzzleLink
    \/ PuzzleUnlink
    \/ PuzzleClose
    \/ PuzzleReopen

SpecLink == InitLinked /\ [][NextLink]_vars

\* The library calls that build a blocks graph: createPuzzle without --blocks,
\* and updatePuzzleBlocks in the action "append".
GraphCreate == \E t \in Titles : createPuzzle(t, None, None)

GraphAppend ==
    \E id \in Ids, b \in Ids :
        /\ Exists(id)
        /\ Len(Read(id).blocks) < MaxBlocks
        /\ updatePuzzleBlocks(id, Some(b), "append")

NextDiamond ==
    \/ GraphCreate
    \/ GraphAppend

SpecDiamond == Init /\ [][NextDiamond]_vars

\* ================================================================== claims

IsPuzzle(id) == Exists(id) /\ Read(id).type = "puzzle"
IsNote(id) == Exists(id) /\ Read(id).type = "note"
IsOpenPuzzle(id) == IsPuzzle(id) /\ Read(id).status # Some("closed")

\* blockersOf(id) as the specification defines it: the open puzzles whose blocks
\* holds id
OpenBlockersOf(id) == {b \in Ids : IsOpenPuzzle(b) /\ id \in Range(Read(b).blocks)}

\* The identifiers of a list of entries
IdsOf(entries) == {entries[i].id : i \in DOMAIN entries}

\* What puzzle list shows of the puzzle id
StatusOf(id) ==
    getStatus(CHOOSE l \in listMemoryEntries(Some("puzzle")) : TRUE, Read(id))

RECURSIVE SumOver(_, _)
SumOver(S, f) ==
    IF S = {} THEN 0
    ELSE LET x == CHOOSE y \in S : TRUE IN f[x] + SumOver(S \ {x}, f)

\* The bytes of the contents of the notes of a directory, as decoded (trimmed)
NoteBytes(fs) ==
    LET notes == {id \in Ids : fs[id] # None /\ fs[id][1].type = "note"}
    IN SumOver(notes, [id \in notes |-> fs[id][1].body.len])

\* The bytes of the bodies of the note files of a directory, as written
RawNoteBytes(fs) ==
    LET notes == {id \in Ids : fs[id] # None /\ fs[id][1].type = "note"}
    IN SumOver(notes, [id \in notes |-> fs[id][1].body.len + fs[id][1].body.pad])

\* C1: in every state and every listing, puzzle list classifies a puzzle closed
\* when its status is closed, otherwise blocked exactly when an open puzzle has
\* its id in blocks, otherwise ready; and the blockers it reports are these open
\* puzzles.
C1_Classification ==
    \A entries \in listMemoryEntries(Some("puzzle")) :
        \A i \in DOMAIN entries :
            LET p == entries[i] IN
            /\ getStatus(entries, p) =
                 IF p.status = Some("closed") THEN "closed"
                 ELSE IF OpenBlockersOf(p.id) # {} THEN "blocked"
                 ELSE "ready"
            /\ IdsOf(getBlockingPuzzles(entries, p.id)) = OpenBlockersOf(p.id)

\* C2: a step that creates puzzle b with --blocks m, m an open puzzle, leaves m
\* blocked and b (which no open puzzle blocks) ready; and a step that closes the
\* only open blocker b of an open puzzle m leaves m ready.
C2_SeedThenClose ==
    [][/\ \A m \in Ids, b \in Ids :
            ( /\ IsOpenPuzzle(m)
              /\ b = nextId
              /\ OpenBlockersOf(b) = {}
              /\ \E t \in Titles, d \in Descriptions : createPuzzle(t, d, Some(m)) )
            => (StatusOf(m) = "blocked" /\ StatusOf(b) = "ready")'
       /\ \A m \in Ids, b \in Ids :
            ( /\ IsOpenPuzzle(m)
              /\ b # m
              /\ OpenBlockersOf(m) = {b}
              /\ updatePuzzleStatus(b, "closed") )
            => (StatusOf(m) = "ready")'
      ]_vars

\* C3: when puzzle s blocks exactly a (as puzzle link --id s --blocks a leaves
\* it), the step of puzzle link --id s --blocks b, b another puzzle, leaves s
\* blocking both a and b, two entries.
C3_LinkRetains ==
    [][\A s \in Ids, a \in Ids, b \in Ids :
          ( /\ a # b
            /\ IsPuzzle(s) /\ IsPuzzle(a) /\ IsPuzzle(b)
            /\ Read(s).blocks = <<a>>
            /\ updatePuzzleBlocks(s, Some(b), "set") )
          => (Range(Read(s).blocks) = {a, b} /\ Len(Read(s).blocks) = 2)'
      ]_vars

\* The store holds exactly the four open puzzles setup, a, b, main with setup
\* blocking a and b, and a and b each blocking main.
IsDiamond(setup, a, b, main) ==
    /\ Cardinality({setup, a, b, main}) = 4
    /\ {id \in Ids : Exists(id)} = {setup, a, b, main}
    /\ \A id \in {setup, a, b, main} : IsOpenPuzzle(id)
    /\ Read(setup).blocks \in {<<a, b>>, <<b, a>>}
    /\ Read(a).blocks = <<main>>
    /\ Read(b).blocks = <<main>>
    /\ Read(main).blocks = <<>>

\* C4: in the diamond (setup blocks a and b, a and b block main, all open) the
\* ready puzzles are exactly {setup}, the blocked ones exactly {a, b, main}, and
\* the blockers reported for main are exactly {a, b}.
C4_Diamond ==
    \A setup \in Ids, a \in Ids, b \in Ids, main \in Ids :
        IsDiamond(setup, a, b, main) =>
            \A entries \in listMemoryEntries(Some("puzzle")) :
                /\ IdsOf(readyPuzzles(entries)) = {setup}
                /\ IdsOf(blockedPuzzles(entries)) = {a, b, main}
                /\ IdsOf(getBlockingPuzzles(entries, main)) = {a, b}

\* C5: a puzzle has closedAt exactly when its status is closed, in every state;
\* createPuzzle leaves the new puzzle open without closedAt, updatePuzzleStatus
\* to closed leaves closedAt set and to open leaves it absent.
C5_ClosedAtIffClosed ==
    /\ [](\A id \in Ids :
            IsPuzzle(id) =>
              /\ (Read(id).closedAt # None) <=> (Read(id).status = Some("closed"))
              /\ (files[id][1].closedAt # None) <=> (files[id][1].status = Some("closed")))
    /\ [][/\ \A id \in Ids :
               (IsPuzzle(id) /\ updatePuzzleStatus(id, "closed"))
               => (Read(id).status = Some("closed") /\ Read(id).closedAt # None)'
          /\ \A id \in Ids :
               (IsPuzzle(id) /\ updatePuzzleStatus(id, "open"))
               => (Read(id).status = Some("open") /\ Read(id).closedAt = None)'
          /\ \A b \in {None} \cup {Some(x) : x \in Ids \cup {StrayId, BadId}}, n \in Ids :
               (n = nextId /\ \E t \in Titles, d \in Descriptions : createPuzzle(t, d, b))
               => (Read(n).status = Some("open") /\ Read(n).closedAt = None)'
         ]_vars

\* A closed puzzle carries closedAt beside a puzzle that was closed and reopened
\* or never closed.
C5_Witness ==
    /\ result.status = "ok"
    /\ \E id \in Ids : IsPuzzle(id) /\ Read(id).status = Some("closed")
                       /\ Read(id).closedAt # None
    /\ \E id \in Ids : IsOpenPuzzle(id)

\* C6: createNote(content) fails exactly when the bytes of the notes in the store
\* plus the bytes of content exceed 32768, and then writes no file and changes
\* nothing of the store; at 32768 or less it writes the note.
C6_HardLimit ==
    [][\A c \in NoteContents :
          createNote(c) =>
            IF NoteBytes(files) + c.len + c.pad > 32768
            THEN /\ result'.status = "HardLimit"
                 /\ files' = files
                 /\ nextId' = nextId
            ELSE /\ result'.status = "ok"
                 /\ files[nextId] = None
                 /\ files'[nextId] # None
                 /\ files'[nextId][1].type = "note"
                 /\ files'[nextId][1].body = c
      ]_vars

\* createNote has failed on the hard limit in a store whose notes were accepted
\* at a total of exactly 32768 bytes.
C6_Witness ==
    /\ rn.pc = "idle"
    /\ result.status = "HardLimit"
    /\ RawNoteBytes(files) = 32768

\* C7: the bytes of the contents of the notes in the store never exceed 32768.
C7_TotalWithinHardLimit == NoteBytes(files) <= 32768

\* A note of the content of the running replaceNotes that was not there when it
\* started
NewNotePresent ==
    \E id \in Ids : /\ rn.before[id] = None
                    /\ IsNote(id)
                    /\ Read(id).content = Trim(rn.content)

\* C8: at every point of a running replaceNotes either every note named in ids
\* is still in the store or the new note is.
C8_NoLoss ==
    rn.pc \in {"delete", "create"} =>
        \/ \A i \in DOMAIN rn.ids : IsNote(rn.ids[i])
        \/ NewNotePresent

\* Whether id named a note of the directory fs
WasNote(fs, id) == id \in Ids /\ fs[id] # None /\ fs[id][1].type = "note"

\* C9: a replaceNotes whose ids name a missing entry or one that is not a note
\* has failed, and the store is as it was when it started.
C9_ValidatedFirst ==
    (rn.pc # "idle" /\ \E i \in DOMAIN rn.ids : ~WasNote(rn.before, rn.ids[i])) =>
        /\ rn.pc = "failed"
        /\ result.status \in {"ENOENT", "is not a note"}
        /\ files = rn.before

\* replaceNotes has failed on its second id, the first naming a note.
C9_Witness ==
    /\ rn.pc = "failed"
    /\ Len(rn.ids) = 2
    /\ WasNote(rn.before, rn.ids[1])
    /\ ~WasNote(rn.before, rn.ids[2])
    /\ IsNote(rn.ids[1])

\* C10: after a replaceNotes that succeeded no id of ids has a file, one entry
\* is new, it is a note of the given content, and every other entry is as it was.
C10_Replaced ==
    rn.pc = "done" =>
        /\ result.status = "ok"
        /\ \A i \in DOMAIN rn.ids : WasNote(rn.before, rn.ids[i]) /\ ~Exists(rn.ids[i])
        /\ \E n \in Ids \ Range(rn.ids) :
              /\ rn.before[n] = None
              /\ IsNote(n)
              /\ files[n][1].body = rn.content
              /\ Read(n).content = Trim(rn.content)
              /\ \A j \in Ids \ (Range(rn.ids) \cup {n}) : files[j] = rn.before[j]
        /\ (\A j \in Ids : rn.before[j] # None => j \in Range(rn.ids)) =>
              Cardinality({j \in Ids : IsNote(j)}) = 1

\* replaceNotes has replaced the two notes of a store that held nothing else.
C10_Witness ==
    /\ rn.pc = "done"
    /\ Len(rn.ids) = 2
    /\ \A j \in Ids : rn.before[j] # None <=> j \in Range(rn.ids)

\* The entry files that parseMemoryFile decodes, of the type asked for
WellFormed(type) ==
    {id \in Ids : /\ Exists(id)
                  /\ HasFrontMatter(files[id][1])
                  /\ (type = None \/ files[id][1].type = type[1])}

\* C11: when one file of the directory is malformed, listMemoryEntries still
\* returns the well-formed entries of the type asked for, all of them.
C11_SkipsMalformed ==
    Cardinality({id \in Ids : Exists(id) /\ ~HasFrontMatter(files[id][1])}) = 1 =>
        \A type \in {None, Some("note"), Some("puzzle"), Some("feedback")} :
            \A l \in listMemoryEntries(type) : IdsOf(l) = WellFormed(type)

\* C12: the ancestor walk of a tree that is being rendered ends, whatever the
\* blocks relation, a self-link or a cycle of two included.
C12_AncestorWalkEnds == (tree.pc = "ancestors") ~> (tree.pc # "ancestors")

\* C13: the descendant traversal ends by returning, never by exhausting the
\* call stack, and it records (expands) no puzzle twice.
C13_DescendantsEnd ==
    /\ tree.pc # "overflow"
    /\ \A i, j \in DOMAIN tree.descendants :
          i # j => tree.descendants[i].id # tree.descendants[j].id

\* The store holds exactly the puzzles a, b, c with a blocking b and b blocking c.
IsChain(a, b, c) ==
    /\ Cardinality({a, b, c}) = 3
    /\ {id \in Ids : Exists(id)} = {a, b, c}
    /\ \A id \in {a, b, c} : IsPuzzle(id)
    /\ Read(a).blocks = <<b>>
    /\ Read(b).blocks = <<c>>
    /\ Read(c).blocks = <<>>

\* C14: the tree rendered for b in the chain where a blocks b and b blocks c
\* has the ancestor chain [a] and the descendants [(c, depth 1)].
C14_Chain ==
    \A a \in Ids, b \in Ids, c \in Ids :
        (IsChain(a, b, c) /\ tree.pc = "done" /\ tree.root = b) =>
            /\ tree.out.text = "tree"
            /\ tree.out.ancestors = <<a>>
            /\ tree.out.descendants = <<[id |-> c, depth |-> 1]>>

\* C15: no puzzle, as decoded from its file, has its own id in blocks.
C15_NoSelfBlock ==
    \A id \in Ids : IsPuzzle(id) => id \notin Range(Read(id).blocks)

\* C17: a tree command whose root names no puzzle ends in failure: it does not
\* return a text and exit with 0.
C17_BadRootFails ==
    (tree.pc \in {"done", "overflow"} /\ ~IsPuzzle(tree.root)) =>
        (tree.pc # "done" /\ TreeExitCode # 0)

\* Whether an optional title, status or closedAt holds something: the empty
\* title does not
Populated(field) == field # None /\ field # Some(0)

\* C16: the entry decoded from the encoding of a valid entry e, under e.id, has
\* the id, type and created of e, the content of e trimmed, and the title,
\* status, closedAt and blocks of e where e has them.
C16_RoundTrip ==
    \A e \in ValidEntries :
        files[e.id] = Some(serializeMemoryEntry(e)) =>
            LET d == parseMemoryFile(e.id, files[e.id][1]) IN
            /\ d.id = e.id /\ d.type = e.type /\ d.created = e.created
            /\ d.content = Trim(e.content)
            /\ Populated(e.title) => d.title = e.title
            /\ e.status # None => d.status = e.status
            /\ e.closedAt # None => d.closedAt = e.closedAt
            /\ e.blocks # <<>> => d.blocks = e.blocks

\* The file of a closed puzzle with a title, closedAt, two blocks entries and a
\* padded content has been written.
C16_Witness ==
    /\ files[1] # None
    /\ files[1][1].type = "puzzle"
    /\ files[1][1].title = Some(1)
    /\ files[1][1].status = Some("closed")
    /\ files[1][1].closedAt # None
    /\ Len(files[1][1].blocks.val) = 2
    /\ files[1][1].body.pad = 1

\* C18: updatePuzzleBlocks in the action set or append, given a target, fails
\* and leaves the store as it is when the target has no file or is not a puzzle,
\* and when the entry to update has no file or is not a puzzle.
C18_BlocksValidated ==
    [][LET puzzles == {id \in Ids : IsPuzzle(id)}
           there == {id \in Ids : Exists(id)}
       IN \A id \in IdArgs, b \in IdArgs, action \in {"set", "append"} :
            ((id \notin puzzles \/ b \notin puzzles)
                /\ updatePuzzleBlocks(id, Some(b), action)) =>
               /\ result'.status \in {"ENOENT", "is not a puzzle"}
               /\ result'.status = "ENOENT" <=>
                     (id \notin there \/ (id \in puzzles /\ b \notin there))
               /\ files' = files
      ]_vars

\* updatePuzzleBlocks has refused an entry that is not a puzzle, in a store that
\* has a puzzle and an entry of another type.
C18_Witness ==
    /\ result.status = "is not a puzzle"
    /\ \E id \in Ids : IsPuzzle(id)
    /\ \E id \in Ids : Exists(id) /\ ~IsPuzzle(id)

\* C19: updateNote and deleteNote fail on an id that has no file, updateNote
\* fails on an entry that is not a note, and the store is then as it was.
C19_NoteOpsFail ==
    [][/\ \A id \in Ids \cup {StrayId, BadId}, c \in {[len |-> 2, pad |-> 0]} :
            (~IsNote(id) /\ updateNote(id, c)) =>
               /\ result'.status = IF Exists(id) THEN "is not a note" ELSE "ENOENT"
               /\ files' = files
       /\ \A id \in Ids \cup {StrayId, BadId} :
            (~Exists(id) /\ deleteNote(id)) =>
               /\ result'.status = "ENOENT"
               /\ files' = files
      ]_vars

\* updateNote has refused the id of a puzzle.
C19_Witness ==
    /\ result.status = "is not a note"
    /\ \E id \in Ids : IsPuzzle(id)
    /\ ~\E id \in Ids : Exists(id) /\ Read(id).type = "feedback"

\* C20: deleteNote removes the file of a note or a puzzle and refuses a feedback
\* entry; a feedback entry leaves the store in a step of clearFeedback only.
C20_FeedbackKept ==
    [][/\ \A id \in Ids :
            (Exists(id) /\ deleteNote(id)) =>
               IF Read(id).type \in {"note", "puzzle"}
               THEN result'.status = "ok" /\ files' = [files EXCEPT ![id] = None]
               ELSE result'.status = "is not a note or puzzle" /\ files' = files
       /\ \A id \in Ids :
            (Exists(id) /\ Read(id).type = "feedback" /\ files'[id] # files[id]) =>
               clearFeedback
      ]_vars

\* deleteNote has refused a feedback entry, which is still there.
C20_Witness ==
    /\ result.status = "is not a note or puzzle"
    /\ \E id \in Ids : Exists(id) /\ Read(id).type = "feedback"

\* C21: clearFeedback removes the file of every feedback entry, returns their
\* number (0 when there is none), and leaves every other file as it is.
C21_ClearFeedback ==
    [][clearFeedback =>
          LET feedback == {id \in Ids : Exists(id) /\ Read(id).type = "feedback"}
          IN /\ result'.status = "ok"
             /\ result'.count = Cardinality(feedback)
             /\ \A id \in feedback : files'[id] = None
             /\ \A id \in Ids \ feedback : files'[id] = files[id]
      ]_vars

\* clearFeedback has removed one feedback entry from a store that holds a note
\* or a puzzle, which is still there.
C21_Witness ==
    /\ result.status = "ok"
    /\ result.count = 1
    /\ nextId = 3
    /\ \E id \in Ids : IsNote(id) \/ IsPuzzle(id)
    /\ ~\E id \in Ids : Exists(id) /\ Read(id).type = "feedback"

C23_Immutable ==
    [][\A id \in {i \in Ids : files'[i] # files[i]} :
          (files[id] # None /\ files'[id] # None) =>
             /\ files'[id][1].type = files[id][1].type
             /\ files'[id][1].created = files[id][1].created
             /\ Read(id)'.id = Read(id).id
             /\ Read(id)'.type = Read(id).type
             /\ Read(id)'.created = Read(id).created
      ]_vars

\* A puzzle was closed later than it was created and a note was updated: both
\* have been rewritten.
C23_Witness ==
    /\ \E id \in Ids : /\ IsPuzzle(id)
                        /\ Read(id).closedAt # None
                        /\ Read(id).closedAt[1] > Read(id).created
    /\ \E id \in Ids : IsNote(id) /\ Read(id).content.len = 2

\* C24: createNote(content) succeeds with the warning exactly when the bytes of
\* the notes in the store plus the bytes of content are more than 30000 and at
\* most 32768; at 30000 or less it succeeds without the warning; whenever it
\* succeeds, warning or not, the note is written.
C24_SoftLimit ==
    [][\A c \in NoteContents :
          createNote(c) =>
            LET newTotal == NoteBytes(files) + c.len + c.pad
            IN /\ (result'.status = "ok" /\ result'.warn)
                     <=> (newTotal > 30000 /\ newTotal <= 32768)
               /\ newTotal <= 30000 => (result'.status = "ok" /\ ~result'.warn)
               /\ newTotal <= 32768 =>
                     /\ files[nextId] = None
                     /\ files'[nextId] # None
                     /\ files'[nextId][1].type = "note"
                     /\ files'[nextId][1].body = c
      ]_vars

\* createNote has warned at a total of exactly 32768 bytes written, after a note
\* that took the total to exactly 30000 without a warning.
C24_Witness ==
    /\ rn.pc = "idle"
    /\ result.status = "ok"
    /\ result.warn
    /\ RawNoteBytes(files) = 32768
    /\ IsNote(1) /\ files[1][1].body.len = 30000

\* C25: createFeedback and createPuzzle succeed and write the entry whatever the
\* bytes of the notes are, and leave the total that createNote compares with the
\* limit as it was, whatever the size of their content; createNote fails exactly
\* when the bytes of the note entries alone, plus the new content, exceed 32768.
C25_NotesOnly ==
    [][/\ \A c \in NoteContents :
            ( \/ createFeedback(c)
              \/ \E t \in Titles : createPuzzle(t, Some(c), None) )
            => /\ result'.status = "ok"
               /\ ~result'.warn
               /\ files'[nextId] # None
               /\ files'[nextId][1].type \in {"feedback", "puzzle"}
               /\ files'[nextId][1].body = c
               /\ getTotalNoteSize' = getTotalNoteSize
       /\ \A c \in NoteContents :
            createNote(c) =>
               /\ getTotalNoteSize = NoteBytes(files)
               /\ result'.status = "HardLimit"
                     <=> NoteBytes(files) + c.len + c.pad > 32768
      ]_vars

\* A feedback entry of 30000 bytes has been written to a store whose notes hold
\* 32768 bytes.
C25_Witness ==
    /\ result.status = "ok"
    /\ RawNoteBytes(files) = 32768
    /\ \E id \in Ids : /\ Exists(id)
                        /\ Read(id).type = "feedback"
                        /\ Read(id).content.len = 30000
                        /\ nextId = id + 1

\* The positions of a blocks list whose element is a string that, trimmed, is
\* of the identifier format
KeptTrimmed(l) == {i \in DOMAIN l : IsString(l[i]) /\ ID_PATTERN(StringTrim(l[i]))}

\* The positions of a blocks list whose element is a string of the identifier
\* format as it stands
KeptAsIs(l) == {i \in DOMAIN l : IsString(l[i]) /\ ID_PATTERN(l[i])}

\* The fields of a file other than blocks decode as they do for any file
OtherFieldsDecoded(f, d) ==
    /\ d.type = f.type
    /\ d.created = f.created
    /\ d.title = f.title
    /\ d.status = f.status
    /\ d.closedAt = f.closedAt
    /\ d.content = Trim(f.body)

\* C26 as amended: every file with a front matter decodes, whatever its blocks
\* value; a string, trimmed of the whitespace around it, gives a one-element
\* list if it is then of the identifier format; a list gives its string
\* elements, each trimmed, that are then of the format, in their order; any
\* other value, or nothing left, gives no blocks; the other fields decode as
\* usual.
C26_BlocksDecode ==
    \A id \in Ids :
        (Exists(id) /\ HasFrontMatter(files[id][1])) =>
            LET f == files[id][1]
                b == f.blocks
                d == Read(id)
                kept == KeptTrimmed(b.val)
            IN /\ OtherFieldsDecoded(f, d)
               /\ b.kind = "string" =>
                     d.blocks = IF 1 \in kept THEN <<StringTrim(b.val[1])>> ELSE <<>>
               /\ b.kind = "list" =>
                     /\ Len(d.blocks) = Cardinality(kept)
                     /\ \A i \in kept :
                           d.blocks[Cardinality({j \in kept : j <= i})] = StringTrim(b.val[i])
               /\ b.kind \in {"none", "other"} => d.blocks = <<>>

\* C26 as stated: a string gives a one-element list if it is of the identifier
\* format, a list gives its string elements that are of the format, in their
\* order, and any other value, or nothing left, gives no blocks.
C26_BlocksDecodeAsIs ==
    \A id \in Ids :
        (Exists(id) /\ HasFrontMatter(files[id][1])) =>
            LET f == files[id][1]
                b == f.blocks
                d == Read(id)
                kept == KeptAsIs(b.val)
            IN /\ OtherFieldsDecoded(f, d)
               /\ b.kind = "string" =>
                     d.blocks = IF 1 \in kept THEN <<b.val[1]>> ELSE <<>>
               /\ b.kind = "list" =>
                     /\ Len(d.blocks) = Cardinality(kept)
                     /\ \A i \in kept :
                           d.blocks[Cardinality({j \in kept : j <= i})] = b.val[i]
               /\ b.kind \in {"none", "other"} => d.blocks = <<>>

\* A file whose blocks is a list of a value that is not a string and a padded
\* identifier has been decoded: the identifier alone is left.
C26_Witness ==
    /\ files[1] # None
    /\ files[1][1].blocks = ListBlocks(<<NotString, Padded(1)>>)
    /\ Read(1).blocks = <<1>>

\* C27: every listing listMemoryEntries(type) can return holds exactly the
\* entries that decode and are of the type asked for (all of them when no type
\* is), each once, the newest first.
C27_ListsDecodable ==
    \A type \in {None, Some("note"), Some("puzzle"), Some("feedback")} :
        \A l \in listMemoryEntries(type) :
            /\ IdsOf(l) = WellFormed(type)
            /\ Len(l) = Cardinality(WellFormed(type))
            /\ \A i, j \in DOMAIN l : i < j => l[i].created >= l[j].created

\* C28: a run of puzzle list leaves every file, and the rest of the store, as it
\* is; and when the list was printed before and no call was made since, the run
\* gives every puzzle the status it gave then, whatever the flags and the order
\* in which the directory is read.
C28_ListIsPure ==
    [][shown' # NoList =>
          /\ files' = files
          /\ nextId' = nextId
          /\ result' = result
          /\ shown # NoList => shown'.status = shown.status
      ]_vars

\* The list has been printed of a store with a closed puzzle and an open puzzle
\* that blocks another open one.
C28_Witness ==
    /\ shown # NoList
    /\ \E id \in Ids : IsPuzzle(id) /\ Read(id).status = Some("closed")
    /\ \E b \in Ids, m \in Ids : b # m /\ IsOpenPuzzle(b) /\ IsOpenPuzzle(m)
                                  /\ m \in Range(Read(b).blocks)

\* The open puzzles that no open puzzle blocks, and those that one does
ReadySet == {id \in Ids : IsOpenPuzzle(id) /\ OpenBlockersOf(id) = {}}
BlockedSet == {id \in Ids : IsOpenPuzzle(id) /\ OpenBlockersOf(id) # {}}

\* C29: puzzle list without a flag, and with --ready, prints exactly the ready
\* puzzles, so no blocked and no closed one; with --blocked it prints exactly
\* the blocked puzzles.
C29_DefaultShowsReady ==
    /\ shown.flag \in {"none", "ready"} => IdsOf(shown.lines) = ReadySet
    /\ shown.flag = "blocked" => IdsOf(shown.lines) = BlockedSet

\* C30: every identifier generateId returns is <prefix>-<5 characters of a-z2-7>
\* and matches ID_PATTERN, whatever the name of the working directory: the
\* prefix it is made with has at least 2 characters, all of [a-z0-9].
C30_IdMatchesPattern ==
    gen.id # None =>
       /\ PatternTest(gen.id[1])
       /\ Len(gen.prefix[1]) >= 2
       /\ \A i \in DOMAIN gen.prefix[1] : gen.prefix[1][i] \in LowerAlnum
       /\ gen.id[1] \in {gen.prefix[1] \o <<"-">> \o r : r \in generateRandomId(5)}

Reverse(s) == [i \in 1..Len(s) |-> s[Len(s) + 1 - i]]

RECURSIVE FirstChain(_, _, _)
\* The puzzles met from id on by going to the first blocks entry of each, as far
\* as the ids resolve to puzzles of entries; n bounds the number of puzzles
FirstChain(entries, id, n) ==
    LET puzzle == SelectSeq(entries, LAMBDA e : e.id = id /\ e.type = "puzzle")
    IN IF n = 0 \/ puzzle = <<>> THEN <<>>
       ELSE <<id>> \o (IF puzzle[1].blocks = <<>> THEN <<>>
                       ELSE FirstChain(entries, puzzle[1].blocks[1], n - 1))

RECURSIVE ReachTo(_, _, _)
\* The puzzles of entries from which a puzzle of the set S is reached by blocks
\* edges, S included; n is the number of rounds
ReachTo(entries, S, n) ==
    LET more == S \cup {entries[i].id : i \in
                          {j \in DOMAIN entries : Range(entries[j].blocks) \cap S # {}}}
    IN IF n = 0 \/ more = S THEN S ELSE ReachTo(entries, more, n - 1)

\* The puzzles from which r is reached by one or more blocks edges
DescendantsOf(entries, r) ==
    LET direct == {entries[i].id : i \in {j \in DOMAIN entries : r \in Range(entries[j].blocks)}}
    IN ReachTo(entries, direct, Len(entries))

\* The line of d above line i through which line i was found: the nearest line
\* above it of one depth less; 0 stands for the root
FoundThrough(d, i) ==
    IF d[i].depth = 1 THEN 0
    ELSE LET above == {j \in 1..(i - 1) : d[j].depth = d[i].depth - 1}
         IN IF above = {} THEN -1 ELSE CHOOSE j \in above : \A k \in above : k <= j

\* C32: over a blocks relation without a cycle, the descendants of a rendered
\* tree are exactly the puzzles from which the root is reached by blocks edges,
\* each listed once, in pre-order, with the depth of the recursion level at which
\* it was found, 1 for the puzzles that block the root itself.
C32_Descendants ==
    (tree.pc = "done" /\ tree.out.text = "tree") =>
        LET d == tree.out.descendants
        IN /\ {d[i].id : i \in DOMAIN d} = DescendantsOf(tree.entries, tree.root)
           /\ \A i, j \in DOMAIN d : i # j => d[i].id # d[j].id
           /\ \A i \in DOMAIN d :
                 /\ d[i].depth >= 1
                 /\ d[i].depth <= (IF i = 1 THEN 1 ELSE d[i - 1].depth + 1)
                 /\ LET through == FoundThrough(d, i)
                        target == IF through = 0 THEN tree.root ELSE d[through].id
                    IN /\ through >= 0
                       /\ target \in Range(idMapGet(tree.entries, d[i].id)[1].blocks)

\* C33: a replaceNotes that has failed, whatever made it fail (an id that names
\* no note, an id given twice, content over the hard limit), leaves the store as
\* it was: the notes named in ids are there and no note is new.
C33_FailureKeepsStore ==
    rn.pc = "failed" =>
        /\ files = rn.before
        /\ \A i \in DOMAIN rn.ids : WasNote(rn.before, rn.ids[i]) => IsNote(rn.ids[i])
        /\ \A id \in Ids : rn.before[id] = None => ~Exists(id)

\* The list s has no element twice
NoRepeat(s) == \A i, j \in DOMAIN s : i # j => s[i] # s[j]

\* C34: updatePuzzleBlocks(id, target, "append") leaves the blocks of id as they
\* were when the target is among them, and writes them followed by the target
\* when it is not; the list it writes has no element twice.
C34_Append ==
    [][\A id \in Subjects : IsPuzzle(id) =>
          \A b \in {x \in Ids : IsPuzzle(x)} :
              updatePuzzleBlocks(id, Some(b), "append") =>
                  LET old == Read(id).blocks
                  IN /\ result'.status = "ok"
                     /\ Read(id)'.blocks = IF b \in Range(old) THEN old ELSE Append(old, b)
                     /\ files'[id][1].blocks = ListBlocks(Read(id)'.blocks)
                     /\ NoRepeat(Read(id)'.blocks)
      ]_vars

\* A puzzle has two blocks entries, the second appended to the first.
C34_Witness ==
    /\ result.status = "ok"
    /\ \E id \in Subjects : IsPuzzle(id) /\ Len(Read(id).blocks) = 2

\* C35: updatePuzzleBlocks with a target writes the list of that target alone
\* in the action set, and the list without that target in the action remove,
\* whether or not the target names an entry; without a target both leave the
\* puzzle without blocks, as does a removal that leaves nothing.
C35_SetRemove ==
    [][\A id \in Subjects : IsPuzzle(id) =>
          LET old == Read(id).blocks
          IN /\ \A b \in {x \in Ids : IsPuzzle(x)} :
                   updatePuzzleBlocks(id, Some(b), "set") =>
                      /\ result'.status = "ok"
                      /\ Read(id)'.blocks = <<b>>
             /\ \A b \in Ids \cup {StrayId, BadId} :
                   updatePuzzleBlocks(id, Some(b), "remove") =>
                      /\ result'.status = "ok"
                      /\ Read(id)'.blocks = SelectSeq(old, LAMBDA x : x # b)
                      /\ Range(old) \subseteq {b} => files'[id][1].blocks = NoBlocks
             /\ \A action \in {"set", "remove"} :
                   updatePuzzleBlocks(id, None, action) =>
                      /\ result'.status = "ok"
                      /\ Read(id)'.blocks = <<>>
                      /\ files'[id][1].blocks = NoBlocks
      ]_vars

\* The first puzzle, created with a seed, blocks the second alone, and the seed
\* of the second is in place.
C35_Witness ==
    /\ result.status = "ok"
    /\ IsPuzzle(1) /\ IsPuzzle(2)
    /\ Read(1).blocks = <<2>>
    /\ Read(2).blocks = <<StrayId>>

\* C36: updatePuzzleStatus leaves the puzzle it is given as it was but for status
\* and closedAt, updatePuzzleBlocks leaves it as it was but for blocks, and both
\* leave the file of every other entry as it was.
C36_NarrowFrame ==
    [][\A id \in Subjects : IsPuzzle(id) =>
          /\ \A status \in {"closed", "open"} :
                updatePuzzleStatus(id, status) =>
                   /\ Read(id)' = [Read(id) EXCEPT !.status = Read(id)'.status,
                                                   !.closedAt = Read(id)'.closedAt]
                   /\ \A j \in Ids \ {id} : files'[j] = files[j]
          /\ \A action \in {"set", "append", "remove"},
                b \in {None} \cup {Some(x) : x \in Ids \cup {StrayId, BadId}} :
                updatePuzzleBlocks(id, b, action) =>
                   /\ Read(id)' = [Read(id) EXCEPT !.blocks = Read(id)'.blocks]
                   /\ \A j \in Ids \ {id} : files'[j] = files[j]
      ]_vars

\* The first puzzle is closed and has blocks: its file has been rewritten (the
\* padding of its description is gone) while that of the second, created with a
\* seed, has not.
C36_Witness ==
    /\ IsPuzzle(1) /\ IsPuzzle(2)
    /\ Read(1).status = Some("closed") /\ Read(1).closedAt # None
    /\ Len(Read(1).blocks) = 2
    /\ files[1][1].body.pad = 0
    /\ files[2][1].body.pad = 1 /\ Read(2).blocks = <<StrayId>>

\* C37: the step that reopens a closed puzzle b leaves every open puzzle that b
\* has in blocks classified blocked, and the blocks of b are what they were; the
\* step that closes b leaves its blocks as they were too.
C37_ReopenBlocksAgain ==
    [][\A b \in Ids : IsPuzzle(b) =>
          /\ (Read(b).status = Some("closed") /\ updatePuzzleStatus(b, "open")) =>
                /\ Read(b)'.blocks = Read(b).blocks
                /\ \A m \in Range(Read(b).blocks) \cap Ids :
                      (m # b /\ IsOpenPuzzle(m)) => (StatusOf(m) = "blocked")'
          /\ (IsOpenPuzzle(b) /\ updatePuzzleStatus(b, "closed")) =>
                Read(b)'.blocks = Read(b).blocks
      ]_vars

\* C38: in every state, of whatever listing puzzle list is given, every puzzle
\* of the store is in exactly one of the three lists it prints (ready, blocked,
\* closed), the puzzles without a status field included, and once.
C38_Partition ==
    \A entries \in listMemoryEntries(Some("puzzle")) :
        LET ready == toShow(entries, "ready")
            blocked == toShow(entries, "blocked")
            closed == toShow(entries, "closed")
        IN /\ IdsOf(ready) \cup IdsOf(blocked) \cup IdsOf(closed) = {id \in Ids : IsPuzzle(id)}
           /\ IdsOf(ready) \cap IdsOf(blocked) = {}
           /\ IdsOf(ready) \cap IdsOf(closed) = {}
           /\ IdsOf(blocked) \cap IdsOf(closed) = {}
           /\ Len(ready) + Len(blocked) + Len(closed) = Cardinality({id \in Ids : IsPuzzle(id)})
           /\ toShow(entries, "none") = ready

\* The store holds a puzzle without a status field that blocks an open puzzle,
\* and a closed puzzle.
C38_Witness ==
    /\ \E id \in Ids : IsPuzzle(id) /\ Read(id).status = Some("closed")
    /\ \E b \in Ids, m \in Ids :
          /\ b # m /\ IsPuzzle(b) /\ IsOpenPuzzle(m)
          /\ files[b][1].status = None
          /\ m \in Range(Read(b).blocks)

BothDone ==
    /\ inv.status.pc = "done" /\ inv.blocks.pc = "done"
    /\ inv.status.id = inv.blocks.id

\* The puzzle of the two invocations is closed and has the target in blocks
BothKept ==
    /\ Read(inv.status.id).status = Some("closed")
    /\ inv.blocks.target \in Range(Read(inv.blocks.id).blocks)

\* One invocation read the file after the other had written it: it found the
\* puzzle closed, or the target in blocks
OneAfterOther ==
    \/ inv.blocks.entry[1].status = Some("closed")
    \/ inv.blocks.target \in Range(inv.status.entry[1].blocks)

\* C40 as stated: once updatePuzzleStatus(p, closed) and updatePuzzleBlocks(p, t,
\* append) of two invocations have both returned, p is closed and has t in
\* blocks, however their reads and writes of the file followed each other.
C40_BothKept == BothDone => BothKept

\* C40 as amended: once both have returned, p is closed or has t in blocks; it
\* is both when one invocation read the file after the other had written it, and
\* not both when each read the file before the other wrote it.
C40_LastWriteKept ==
    BothDone =>
        /\ \/ Read(inv.status.id).status = Some("closed")
           \/ inv.blocks.target \in Range(Read(inv.blocks.id).blocks)
        /\ OneAfterOther <=> BothKept

\* updatePuzzleBlocks read the puzzle after updatePuzzleStatus had closed it,
\* and both have returned: the puzzle, created with a seed, is closed and has
\* the seed and the target in blocks.
C40_Witness ==
    /\ BothDone /\ BothKept
    /\ inv.blocks.entry[1].status = Some("closed")
    /\ Len(Read(inv.blocks.id).blocks) = 2

====
